---- MODULE Spec2Model ----
(***************************************************************************)
(* Verification model of the cantomeet-notes meeting-processing pipeline.  *)
(*                                                                         *)
(* Part A models the code in frontend/src/services/api/tasks.ts: the       *)
(* in-memory mock data service (mockTasks, mockMeetings, createTask with   *)
(* its three timers, finalizeTask) and the mock branch of                  *)
(* tasksApi.finalize.                                                      *)
(*                                                                         *)
(* Part B models the backend job pipeline (Job Store, Queue, Worker Pool,  *)
(* stale-job reclaimer).  Its code is not part of the source tree at hand  *)
(* (only backend/docs/background-tasks.md and the worker start scripts     *)
(* are), so Part B is written from spec.md sections 3 to 7.                *)
(***************************************************************************)
EXTENDS Integers, Sequences, FiniteSets, TLC

VARIABLES
    mockTasks,      \* tasks.ts:78   let mockTasks: ProcessingTask[]
    mockMeetings,   \* tasks.ts:116  let mockMeetings: Meeting[]
    timers,         \* pending setTimeout callbacks of createTask, per task id
    calls,          \* tasksApi.finalize invocations (mock branch), per call slot
    nextTask,       \* next value of Date.now() used for a task id
    nextMeeting,    \* next value of Date.now() used for a meeting id
    jobs,           \* Job Store: the job record of each job id, NoJob before create
    queue,          \* Queue: the messages waiting for delivery, oldest first
    worker,         \* Worker Pool: each worker's position in the per-stage algorithm
    fin,            \* Status/Finalize API: the finalize request being served
    meetings,       \* the Meeting records finalize has created, oldest first
    reply,          \* what the latest create or probing transition call returned
    faults,         \* the redeliveries, crashes and reclaims so far, in order
    lanes,          \* RQ queues: the number of jobs waiting in each lane
    tracked,        \* per lane, the place in line of one marked job (0: none waits)
    polled,         \* what the client's latest tasksApi.list or tasksApi.get returned
    pageTasks,      \* TasksPage: const { data: tasks } of the ['tasks', workspace] query
    selectedTaskId, \* TasksPage: useState selectedTaskId, 0 for null
    reviewTitle,    \* TasksPage: useState reviewTitle
    finalizeMutation, \* TasksPage: the finalize mutation and the task it was issued for
    location,       \* the router's current path, as its segments
    files,          \* UploadPage: useState files, each selected file by its number
    justQueuedCount, \* UploadPage: useState justQueuedCount
    queueRun,       \* UploadPage: the handleQueueTask invocation in progress
    uploads,        \* the meetingsApi.create calls that succeeded, in order, by file
    nextFile,       \* the number the next selected file gets
    user,           \* AuthProvider: useState user, "null" or the user's id
    isLoading,      \* AuthProvider: useState isLoading
    authToken,      \* localStorage item 'auth_token', "null" when absent
    authRequests,   \* the auth API requests in flight, by the function that sent them
    signedOut,      \* whether logout was the last of logout, login and register to end
    meeting,        \* MeetingDetailPage: the data of the ['meeting', id] query
    detailId,       \* MeetingDetailPage: the id of the route, "none" off the page
    fetching,       \* MeetingDetailPage: what started the fetch in flight, or "none"
    intervalFetches, \* MeetingDetailPage: the fetches the refetch interval has started
    activeWorkspace, \* WorkspaceProvider: useState activeWorkspace, by id, "null" for null
    workspaces,     \* WorkspaceProvider: useState workspaces, by id
    wsCalls         \* WorkspaceProvider: the switch, create and join calls in flight

mockVars == <<mockTasks, mockMeetings, timers, calls, nextTask, nextMeeting>>
pipeVars == <<jobs, queue, worker, fin, meetings, reply, faults>>
laneVars == <<lanes, tracked>>
pollVars == <<polled>>
pageVars == <<pageTasks, selectedTaskId, reviewTitle, finalizeMutation, location>>
uploadVars == <<files, justQueuedCount, queueRun, uploads, nextFile>>
authVars == <<user, isLoading, authToken, authRequests, signedOut>>
detailVars == <<meeting, detailId, fetching, intervalFetches>>
wsVars == <<activeWorkspace, workspaces, wsCalls>>
uiVars == <<pollVars, pageVars, uploadVars, authVars, detailVars, wsVars>>
uiButPoll == <<pageVars, uploadVars, authVars, detailVars, wsVars>>
uiButPage == <<pollVars, uploadVars, authVars, detailVars, wsVars>>
uiButUpload == <<pollVars, pageVars, authVars, detailVars, wsVars>>
uiButAuth == <<pollVars, pageVars, uploadVars, detailVars, wsVars>>
uiButDetail == <<pollVars, pageVars, uploadVars, authVars, wsVars>>
uiButWs == <<pollVars, pageVars, uploadVars, authVars, detailVars>>
vars == <<mockVars, pipeVars, laneVars, uiVars>>

(***************************************************************************)
(* Bounds                                                                  *)
(***************************************************************************)
MaxCreated == 1     \* createTask calls explored
MaxCalls == 2       \* tasksApi.finalize calls explored
maxAttempts == 2    \* the retry policy's maxAttempts (a configuration value)
MaxFaults == 1      \* redeliveries, crashes and reclaims explored, in all
MaxRuns == 3        \* handler invocations explored per job where they are capped
MaxLane == 4        \* jobs waiting in one lane of the queue

(***************************************************************************)
(* The job state machine of spec.md section 4.3 and the task status the    *)
(* client sees for each job state (types ProcessingTask, TASK_STATUS).     *)
(***************************************************************************)
JobStates == {"QUEUED", "TRANSCRIBING", "SUMMARIZING", "REVIEW_READY",
              "COMPLETED", "FAILED"}
Terminal == {"COMPLETED", "FAILED"}

Edge == { <<"QUEUED", "TRANSCRIBING">>, <<"TRANSCRIBING", "SUMMARIZING">>,
          <<"SUMMARIZING", "REVIEW_READY">>, <<"REVIEW_READY", "COMPLETED">> }
        \cup { <<s, "FAILED">> : s \in JobStates \ Terminal }

\* ProcessingTask.status has one value, 'processing', for both stages.
StatusOf(s) ==
    CASE s = "QUEUED" -> "queued"
      [] s \in {"TRANSCRIBING", "SUMMARIZING"} -> "processing"
      [] s = "REVIEW_READY" -> "review_ready"
      [] s = "COMPLETED" -> "completed"
      [] s = "FAILED" -> "failed"

\* The edges as a client sees them: changes of ProcessingTask.status.
TaskEdge == { <<StatusOf(e[1]), StatusOf(e[2])>> : e \in Edge }
            \ { <<x, x>> : x \in {"processing"} }

(***************************************************************************)
(* Part A: the mock data service                                           *)
(***************************************************************************)
Workspaces == {"ws_1", "ws_2"}
Filenames == {"a.m4a"}
TaskStatus == {"queued", "processing", "review_ready", "completed", "failed"}
TerminalStatus == {"completed", "failed"}

\* The two tasks mockTasks starts with (ids task_1 and task_2).
SeedTasks ==
    << [id |-> 1, workspaceId |-> "ws_1", filename |-> "Q3_Product_Review_2024.m4a",
        status |-> "review_ready", progress |-> 100,
        logs |-> << "File uploaded successfully", "Starting transcription...",
                    "Transcription 50% complete", "Transcription complete",
                    "Starting summarization...", "Summarization complete",
                    "Ready for review" >>],
       [id |-> 2, workspaceId |-> "ws_1", filename |-> "Weekly_Sync_Meeting.m4a",
        status |-> "processing", progress |-> 65,
        logs |-> << "File uploaded successfully", "Starting transcription...",
                    "Transcription 30% complete", "Transcription 60% complete",
                    "Transcription 65% complete..." >>] >>

\* The meeting mockMeetings starts with; fromTask 0: not made by finalizeTask.
SeedMeetings ==
    << [id |-> 0, workspaceId |-> "ws_1",
        title |-> "Q3 Product Roadmap Review & Tech Infra",
        template |-> "Product Review", status |-> "completed", fromTask |-> 0] >>

FirstNewTask == Len(SeedTasks) + 1
TaskIds == 1 .. (Len(SeedTasks) + MaxCreated)

\* The data a finalize call carries: title, template and the caller's active
\* workspace (TasksPage passes activeWorkspace.id); tags left out.
Metadata == { [title |-> "Sync", template |-> "General", workspaceId |-> "ws_1"] }

\* mockTasks.find((t) => t.id === id): index of the first match, 0 if none.
FindIndex(tasks, id) ==
    IF \E i \in 1..Len(tasks) : tasks[i].id = id
    THEN CHOOSE i \in 1..Len(tasks) :
            /\ tasks[i].id = id
            /\ \A k \in 1..(i-1) : tasks[k].id # id
    ELSE 0

\* mockDataService.getTask
getTask(id) ==
    IF FindIndex(mockTasks, id) = 0 THEN "undefined"
    ELSE mockTasks[FindIndex(mockTasks, id)]

\* mockDataService.getTasks
getTasks(workspaceId) ==
    LET InWs(t) == t.workspaceId = workspaceId IN SelectSeq(mockTasks, InWs)

NoCall == [st |-> "idle", taskId |-> 0, data |-> "none", result |-> "none",
           meeting |-> 0, seen |-> "none", prior |-> {}, overlap |-> {}]

MockInit ==
    /\ mockTasks = SeedTasks
    /\ mockMeetings = SeedMeetings
    /\ timers = [id \in {} |-> 0]
    /\ calls = [c \in 1..MaxCalls |-> NoCall]
    /\ nextTask = FirstNewTask
    /\ nextMeeting = 1

\* Mutant: the new task is pushed as already started.
createTaskStarted(workspaceId, filename) ==
    /\ nextTask <= Len(SeedTasks) + MaxCreated
    /\ mockTasks' = Append(mockTasks,
            [id |-> nextTask, workspaceId |-> workspaceId, filename |-> filename,
             status |-> "processing", progress |-> 10,
             logs |-> << "File uploaded successfully", "Starting transcription..." >>])
    /\ timers' = [id \in DOMAIN timers \cup {nextTask} |->
                    IF id = nextTask THEN 1 ELSE timers[id]]
    /\ nextTask' = nextTask + 1
    /\ UNCHANGED <<mockMeetings, calls, nextMeeting>>
    /\ UNCHANGED <<pipeVars, laneVars, uiVars>>

\* mockDataService.createTask: push the new task, arm the three timers.
createTask(workspaceId, filename) ==
    /\ nextTask <= Len(SeedTasks) + MaxCreated
    /\ mockTasks' = Append(mockTasks,
            [id |-> nextTask, workspaceId |-> workspaceId, filename |-> filename,
             status |-> "queued", progress |-> 0,
             logs |-> << "File uploaded successfully" >>])
    /\ timers' = [id \in DOMAIN timers \cup {nextTask} |->
                    IF id = nextTask THEN 1 ELSE timers[id]]
    /\ nextTask' = nextTask + 1
    /\ UNCHANGED <<mockMeetings, calls, nextMeeting>>
    /\ UNCHANGED <<pipeVars, laneVars, uiVars>>

\* Mutant: the second callback writes 5 for 50.
TimerEffectTypo(k, task) ==
    CASE k = 1 -> [task EXCEPT !.status = "processing", !.progress = 10]
      [] k = 2 -> [task EXCEPT !.progress = 5]
      [] k = 3 -> [task EXCEPT !.progress = 100, !.status = "review_ready"]

\* Mutant: the first callback assigns the log instead of pushing to it.
TimerEffectOverwrite(k, task) ==
    CASE k = 1 -> [task EXCEPT !.status = "processing", !.progress = 10,
                       !.logs = << "Starting transcription..." >>]
      [] k = 2 -> [task EXCEPT !.progress = 50,
                       !.logs = Append(@, "Transcription 50% complete")]
      [] k = 3 -> [task EXCEPT !.progress = 100, !.status = "review_ready",
                       !.logs = @ \o << "Transcription complete",
                                       "Starting summarization...",
                                       "Summarization complete",
                                       "Ready for review" >>]

\* Mutant: the first callback changes the status and pushes no log entry.
TimerEffectSilent(k, task) ==
    CASE k = 1 -> [task EXCEPT !.status = "processing", !.progress = 10]
      [] k = 2 -> [task EXCEPT !.progress = 50,
                       !.logs = Append(@, "Transcription 50% complete")]
      [] k = 3 -> [task EXCEPT !.progress = 100, !.status = "review_ready",
                       !.logs = @ \o << "Transcription complete",
                                       "Starting summarization...",
                                       "Summarization complete",
                                       "Ready for review" >>]

\* Mutant: the last callback sets the status and leaves the progress at 50.
TimerEffectEarlyReady(k, task) ==
    CASE k = 1 -> [task EXCEPT !.status = "processing", !.progress = 10,
                       !.logs = Append(@, "Starting transcription...")]
      [] k = 2 -> [task EXCEPT !.progress = 50,
                       !.logs = Append(@, "Transcription 50% complete")]
      [] k = 3 -> [task EXCEPT !.status = "review_ready",
                       !.logs = @ \o << "Transcription complete",
                                       "Starting summarization...",
                                       "Summarization complete",
                                       "Ready for review" >>]

\* What the k-th timer callback of createTask does to the task it finds.
TimerEffect(k, task) ==
    CASE k = 1 -> [task EXCEPT !.status = "processing", !.progress = 10,
                       !.logs = Append(@, "Starting transcription...")]
      [] k = 2 -> [task EXCEPT !.progress = 50,
                       !.logs = Append(@, "Transcription 50% complete")]
      [] k = 3 -> [task EXCEPT !.progress = 100, !.status = "review_ready",
                       !.logs = @ \o << "Transcription complete",
                                       "Starting summarization...",
                                       "Summarization complete",
                                       "Ready for review" >>]

\* Mutant: the callbacks of one task may run out of order.
TimerDueUnordered(id, k) == timers[id] <= k

\* Which timer of a task fires next: the delays 2000 < 8000 < 15000 start at
\* the same instant, so the callbacks of one task run in this order.
TimerDue(id, k) == timers[id] = k

\* One setTimeout callback of createTask runs; a removed task is left alone.
TimerFire(id, k) ==
    /\ id \in DOMAIN timers
    /\ TimerDue(id, k)
    /\ timers' = [timers EXCEPT ![id] = k + 1]
    /\ LET i == FindIndex(mockTasks, id) IN
         mockTasks' = IF i = 0 THEN mockTasks
                      ELSE [mockTasks EXCEPT ![i] = TimerEffect(k, mockTasks[i])]
    /\ UNCHANGED <<mockMeetings, calls, nextTask, nextMeeting>>
    /\ UNCHANGED <<pipeVars, laneVars, uiVars>>

\* Mutant: finalizeTask forgets to remove the task.
RemoveTaskForgotten(tasks, taskId) == tasks

\* The tasks finalizeTask leaves in mockTasks ("// Remove task").
RemoveTask(tasks, taskId) ==
    LET Keep(t) == t.id # taskId IN SelectSeq(tasks, Keep)

\* Whether finalizeTask goes on to create the meeting for the task it looked up.
FinalizeAccepts(i) == i # 0

\* tasksApi.finalize, mock branch, up to the await of the 500 ms delay.
FinalizeCall(c, taskId, data) ==
    /\ calls[c].st = "idle"
    /\ \A k \in 1..(c-1) : calls[k].st # "idle"
    /\ calls' = [calls EXCEPT ![c] =
            [NoCall EXCEPT !.st = "pending", !.taskId = taskId, !.data = data,
                !.prior = {k \in 1..MaxCalls : calls[k].st = "done"},
                !.overlap = {k \in 1..MaxCalls : calls[k].st = "pending"}]]
    /\ UNCHANGED <<mockTasks, mockMeetings, timers, nextTask, nextMeeting>>
    /\ UNCHANGED <<pipeVars, laneVars, uiVars>>

\* The delay is over: mockDataService.finalizeTask runs to its end.
FinalizeResolve(c) ==
    /\ calls[c].st = "pending"
    /\ LET taskId == calls[c].taskId
           i == FindIndex(mockTasks, taskId)
       IN IF ~FinalizeAccepts(i)
          THEN /\ calls' = [calls EXCEPT ![c].st = "done",
                               ![c].result = "Task not found",
                               ![c].seen = IF i = 0 THEN "absent"
                                           ELSE mockTasks[i].status]
               /\ UNCHANGED <<mockTasks, mockMeetings, nextMeeting>>
          ELSE /\ mockMeetings' = Append(mockMeetings,
                      [id |-> nextMeeting,
                       workspaceId |-> mockTasks[i].workspaceId,
                       title |-> calls[c].data.title,
                       template |-> calls[c].data.template,
                       status |-> "completed", fromTask |-> taskId])
               /\ mockTasks' = RemoveTask(mockTasks, taskId)
               /\ nextMeeting' = nextMeeting + 1
               /\ calls' = [calls EXCEPT ![c].st = "done", ![c].result = "ok",
                               ![c].meeting = nextMeeting,
                               ![c].seen = mockTasks[i].status]
    /\ UNCHANGED <<timers, nextTask>>
    /\ UNCHANGED <<pipeVars, laneVars, uiVars>>

\* TasksPage, useQuery refetchInterval: the interval the task list is fetched
\* again after, given the list fetched last; 0 stands for false (no polling).
PollIntervalMs == 3000

\* Mutant: a queued task does not keep the list polling.
refetchIntervalProcessingOnly(data) ==
    IF \E i \in 1..Len(data) :
          \/ data[i].status = "processing"
          \/ (data[i].progress = 100
                /\ data[i].status \notin {"review_ready", "completed", "failed"})
    THEN PollIntervalMs ELSE 0

refetchInterval(data) ==
    IF \E i \in 1..Len(data) :
          \/ data[i].status = "queued"
          \/ data[i].status = "processing"
          \/ (data[i].progress = 100
                /\ data[i].status \notin {"review_ready", "completed", "failed"})
    THEN PollIntervalMs ELSE 0

\* getTasksLeaves where the filtered array is assigned back to mockTasks, as
\* finalizeTask does with its own filter.
getTasksAssigns(tasks, workspaceId) ==
    LET InWs(t) == t.workspaceId = workspaceId IN SelectSeq(tasks, InWs)

\* What getTasks and getTask leave in mockTasks: filter and find build their
\* result from the array and assign nothing.
getTasksLeaves(tasks, workspaceId) == tasks

\* A poll's outcome: the workspace listed or the id looked up, the tasks
\* returned, and the error thrown.
Polled(op, workspaceId, id, result, error) ==
    [op |-> op, workspaceId |-> workspaceId, id |-> id, result |-> result,
     error |-> error]

PollInit == polled = Polled("none", "", 0, << >>, "")

\* tasksApi.list, mock branch: after the delay, mockDataService.getTasks.
PollList(workspaceId) ==
    /\ polled' = Polled("list", workspaceId, 0, getTasks(workspaceId), "")
    /\ mockTasks' = getTasksLeaves(mockTasks, workspaceId)
    /\ UNCHANGED <<mockMeetings, timers, calls, nextTask, nextMeeting>>
    /\ UNCHANGED <<pipeVars, laneVars, uiButPoll>>

\* tasksApi.get, mock branch: after the delay, mockDataService.getTask; a
\* task that is not there makes it throw.
PollGet(id) ==
    /\ polled' = IF FindIndex(mockTasks, id) = 0
                  THEN Polled("get", "", id, << >>, "Task not found")
                  ELSE Polled("get", "", id, << getTask(id) >>, "")
    /\ UNCHANGED mockVars
    /\ UNCHANGED <<pipeVars, laneVars, uiButPoll>>

\* The mock data service with a client that polls it and finalizes one task.
NextPoll ==
    \/ \E w \in Workspaces, f \in Filenames : createTask(w, f)
    \/ \E id \in TaskIds, k \in 1..3 : TimerFire(id, k)
    \/ \E t \in TaskIds, d \in Metadata : FinalizeCall(1, t, d)
    \/ FinalizeResolve(1)
    \/ \E w \in Workspaces : PollList(w)
    \/ \E id \in TaskIds : PollGet(id)

MockNext ==
    \/ \E w \in Workspaces, f \in Filenames : createTask(w, f)
    \/ \E id \in TaskIds, k \in 1..3 : TimerFire(id, k)
    \/ \E c \in 1..MaxCalls, t \in TaskIds, d \in Metadata : FinalizeCall(c, t, d)
    \/ \E c \in 1..MaxCalls : FinalizeResolve(c)


(***************************************************************************)
(* Part B: the job pipeline of spec.md sections 3 to 7                     *)
(***************************************************************************)
Jobs == {"j1"}
Workers == {"w1", "w2"}
Stages == {"T", "S"}                 \* transcription, summarization
SourceRefs == {"", "audio_1"}

\* Job.error of a job that has not failed (the field is absent).
NoError == [kind |-> "none", message |-> ""]

NoJob == [state |-> "NONE", progress |-> 0, log |-> <<>>, attempt |-> 0,
          error |-> NoError]
Idle == [pc |-> "idle", msg |-> "none", cb |-> FALSE]

\* Section 4.3: the state a stage holds while it runs, the state it leaves
\* the job in, and the progress at its start and at its completion.
InProgress(stage) == IF stage = "T" THEN "TRANSCRIBING" ELSE "SUMMARIZING"
NextState(stage) == IF stage = "T" THEN "SUMMARIZING" ELSE "REVIEW_READY"
StageStart(stage) == IF stage = "T" THEN 0 ELSE 50
StageDone(stage) == IF stage = "T" THEN 50 ELSE 100
CallbackDelta == 25
\* StageOf that names the summarization stage whatever the state.
StageOfSummarizing(state) == "S"

StageOf(state) == IF state = "TRANSCRIBING" THEN "T" ELSE "S"

\* Section 4.3 step 1: the state a message expects the job to be in.  The
\* first transcription message expects QUEUED; a retried or reclaimed stage,
\* and the summarization the orchestrator triggers after TRANSCRIBING ->
\* SUMMARIZING, find the job in the stage's own in-progress state.
Expected(m) ==
    IF m.stage = "T" /\ m.attempt = 1 THEN "QUEUED" ELSE InProgress(m.stage)

\* Section 7: the error a handler outcome is classified as.
ErrorOf(outcome) ==
    IF outcome = "transient"
    THEN [kind |-> "TransientServiceError", message |-> "timeout"]
    ELSE [kind |-> "PermanentServiceError", message |-> "unsupported codec"]

\* Retryable with the attempt bound off by one.
RetryableOffByOne(outcome, attempt) == outcome = "transient" /\ attempt <= maxAttempts

\* Retryable without the classification of the error.
RetryableAnyError(outcome, attempt) == attempt < maxAttempts

\* Section 4.3 step 5: whether a failed attempt is retried.
Retryable(outcome, attempt) == outcome = "transient" /\ attempt < maxAttempts

\* Section 4.1 transition: which calls are legal for a stored state.  A call
\* that keeps the state (a progress or log update) is legal on a job that is
\* not terminal.
Legal(expected, next) ==
    \/ <<expected, next>> \in Edge
    \/ expected = next /\ expected \in JobStates \ Terminal

\* TransitionResult without the compare-and-swap: the stored state is not
\* compared with the expected one.
TransitionResultNoCas(job, expected, next) ==
    IF ~Legal(expected, next) THEN "InvalidStateError" ELSE "ok"

\* TransitionResult with the compare-and-swap only, no check of the edge.
TransitionResultCasOnly(job, expected, next) ==
    IF job.state # expected THEN "ConflictError" ELSE "ok"

\* Section 4.1 transition, the result: ConflictError on a CAS mismatch,
\* InvalidStateError on a pair that is no edge.
TransitionResult(job, expected, next) ==
    IF job.state # expected THEN "ConflictError"
    ELSE IF ~Legal(expected, next) THEN "InvalidStateError"
    ELSE "ok"

\* Transition that writes the state and the progress but not the log entry.
TransitionDropsEntry(job, expected, next, upd) ==
    IF TransitionResult(job, expected, next) # "ok" THEN job
    ELSE [state |-> next,
          progress |-> IF upd.kind = "add"
                       THEN (IF job.progress + upd.p > 100 THEN 100
                             ELSE job.progress + upd.p)
                       ELSE upd.p,
          log |-> IF next = job.state THEN job.log ELSE Append(job.log, upd.entry),
          attempt |-> IF upd.attempt = 0 THEN job.attempt ELSE upd.attempt,
          error |-> upd.error]

\* Transition that does not record the error.
TransitionDropsError(job, expected, next, upd) ==
    IF TransitionResult(job, expected, next) # "ok" THEN job
    ELSE [state |-> next,
          progress |-> IF upd.kind = "add"
                       THEN (IF job.progress + upd.p > 100 THEN 100
                             ELSE job.progress + upd.p)
                       ELSE upd.p,
          log |-> Append(job.log, upd.entry),
          attempt |-> IF upd.attempt = 0 THEN job.attempt ELSE upd.attempt,
          error |-> job.error]

\* Section 4.1 transition, the stored job afterwards.  upd gives the progress
\* (kind "add": a delta, capped at 100; "set": a value), the attempt count (0:
\* keep), the log entry and the error to record.
Transition(job, expected, next, upd) ==
    IF TransitionResult(job, expected, next) # "ok" THEN job
    ELSE [state |-> next,
          progress |-> IF upd.kind = "add"
                       THEN (IF job.progress + upd.p > 100 THEN 100
                             ELSE job.progress + upd.p)
                       ELSE upd.p,
          log |-> Append(job.log, upd.entry),
          attempt |-> IF upd.attempt = 0 THEN job.attempt ELSE upd.attempt,
          error |-> upd.error]

Upd(kind, p, attempt, entry, error) ==
    [kind |-> kind, p |-> p, attempt |-> attempt, entry |-> entry, error |-> error]

Msg(j, stage, attempt) == [job |-> j, stage |-> stage, attempt |-> attempt]

\* A log entry of the pipeline: what happened, to which stage, on which attempt.
Entry(what, stage, attempt) == <<what, stage, attempt>>

PipeInit ==
    /\ jobs = [j \in Jobs |-> NoJob]
    /\ queue = <<>>
    /\ worker = [w \in Workers |-> Idle]
    /\ fin = [pc |-> "idle", job |-> "none", result |-> "none"]
    /\ meetings = <<>>
    /\ reply = "none"
    /\ faults = <<>>

\* Section 4.1 create and section 6 upload boundary: the job is stored in
\* QUEUED with progress 0 and the "queued" log entry, and its id is enqueued.
Create(j, sourceRef) ==
    /\ jobs[j].state = "NONE"
    /\ IF sourceRef = ""
       THEN /\ reply' = "ValidationError"
            /\ UNCHANGED <<jobs, queue>>
       ELSE /\ jobs' = [jobs EXCEPT ![j] =
                   [state |-> "QUEUED", progress |-> 0,
                    log |-> << Entry("queued", "T", 0) >>,
                    attempt |-> 0, error |-> NoError]]
            /\ queue' = Append(queue, Msg(j, "T", 1))
            /\ reply' = "ok"
    /\ UNCHANGED <<mockVars, laneVars, uiVars>>
    /\ UNCHANGED <<worker, fin, meetings, faults>>

\* Whether a worker that loaded the job goes on with the message (step 1).
Accepts(job, m) == job.state = Expected(m)

\* Section 4.3 step 1: a worker takes the oldest message and loads the job; a
\* job that is not in the expected state makes it drop the message.
Take(w, rest) ==
    /\ worker[w].pc = "idle"
    /\ queue # <<>>
    /\ queue' = rest
    /\ worker' = [worker EXCEPT ![w] =
           IF Accepts(jobs[Head(queue).job], Head(queue))
           THEN [pc |-> "loaded", msg |-> Head(queue), cb |-> FALSE]
           ELSE Idle]

Dequeue(w) ==
    /\ Take(w, Tail(queue))
    /\ UNCHANGED <<mockVars, laneVars, uiVars>>
    /\ UNCHANGED <<jobs, fin, meetings, reply, faults>>

\* Section 4.2, at-least-once delivery: the message a worker takes stays in
\* the queue and is delivered once more.
DequeueRedelivered(w) ==
    /\ Len(faults) < MaxFaults
    /\ Take(w, Append(Tail(queue), Head(queue)))
    /\ faults' = Append(faults, "redelivery")
    /\ UNCHANGED <<mockVars, laneVars, uiVars>>
    /\ UNCHANGED <<jobs, fin, meetings, reply>>

\* Section 4.3 step 2: CAS-transition to the in-progress state with the
\* progress at the stage's start value, append the log entry, and invoke the
\* handler; on ConflictError the worker abandons the attempt.
Start(w) ==
    /\ worker[w].pc = "loaded"
    /\ LET m == worker[w].msg
           j == m.job
           upd == Upd("set", StageStart(m.stage), m.attempt,
                      Entry("start", m.stage, m.attempt), NoError)
           res == TransitionResult(jobs[j], Expected(m), InProgress(m.stage))
       IN /\ jobs' = [jobs EXCEPT ![j] =
                 Transition(@, Expected(m), InProgress(m.stage), upd)]
          /\ worker' = IF res = "ok" THEN [worker EXCEPT ![w].pc = "running"]
                       ELSE [worker EXCEPT ![w] = Idle]
    /\ UNCHANGED <<mockVars, laneVars, uiVars>>
    /\ UNCHANGED <<queue, fin, meetings, reply, faults>>

\* Section 4.3 step 3: a progress callback of the running handler, a
\* transition that keeps the state, adds to the progress and appends a log entry.
Callback(w) ==
    /\ worker[w].pc = "running"
    /\ ~worker[w].cb
    /\ LET m == worker[w].msg
           j == m.job
           st == InProgress(m.stage)
           upd == Upd("add", CallbackDelta, 0, Entry("progress", m.stage, m.attempt), NoError)
           res == TransitionResult(jobs[j], st, st)
       IN /\ jobs' = [jobs EXCEPT ![j] = Transition(@, st, st, upd)]
          /\ worker' = IF res = "ok" THEN [worker EXCEPT ![w].cb = TRUE]
                       ELSE [worker EXCEPT ![w] = Idle]
    /\ UNCHANGED <<mockVars, laneVars, uiVars>>
    /\ UNCHANGED <<queue, fin, meetings, reply, faults>>

\* Section 4.3 step 4: the handler succeeded.
FinishOk(w) ==
    /\ worker[w].pc = "running"
    /\ LET m == worker[w].msg
           j == m.job
           st == InProgress(m.stage)
           upd == Upd("set", StageDone(m.stage), 0, Entry("done", m.stage, m.attempt), NoError)
           res == TransitionResult(jobs[j], st, NextState(m.stage))
       IN /\ jobs' = [jobs EXCEPT ![j] = Transition(@, st, NextState(m.stage), upd)]
          /\ queue' = IF res = "ok" /\ m.stage = "T"
                      THEN Append(queue, Msg(j, "S", 1)) ELSE queue
    /\ worker' = [worker EXCEPT ![w] = Idle]
    /\ UNCHANGED <<mockVars, laneVars, uiVars>>
    /\ UNCHANGED <<fin, meetings, reply, faults>>

\* Section 4.3 step 5: the handler failed.  A retryable failure below
\* maxAttempts re-enqueues the stage with attempt + 1, logs the failed
\* attempt and keeps the state; any other failure CAS-transitions to FAILED
\* with the error recorded.
FinishError(w, outcome) ==
    /\ worker[w].pc = "running"
    /\ LET m == worker[w].msg
           j == m.job
           st == InProgress(m.stage)
           retry == Retryable(outcome, m.attempt)
           upd == Upd("add", 0, 0, Entry(outcome, m.stage, m.attempt),
                      IF retry THEN NoError ELSE ErrorOf(outcome))
           next == IF retry THEN st ELSE "FAILED"
           res == TransitionResult(jobs[j], st, next)
       IN /\ jobs' = [jobs EXCEPT ![j] = Transition(@, st, next, upd)]
          /\ queue' = IF res = "ok" /\ retry
                      THEN Append(queue, Msg(j, m.stage, m.attempt + 1)) ELSE queue
    /\ worker' = [worker EXCEPT ![w] = Idle]
    /\ UNCHANGED <<mockVars, laneVars, uiVars>>
    /\ UNCHANGED <<fin, meetings, reply, faults>>

\* Section 4.4: a worker crashes before acknowledging; the queue delivers its
\* message again and the job stays as the worker left it.
Crash(w) ==
    /\ Len(faults) < MaxFaults
    /\ worker[w].pc \in {"loaded", "running"}
    /\ queue' = Append(queue, worker[w].msg)
    /\ worker' = [worker EXCEPT ![w] = Idle]
    /\ faults' = Append(faults, "crash")
    /\ UNCHANGED <<mockVars, laneVars, uiVars>>
    /\ UNCHANGED <<jobs, fin, meetings, reply>>

\* Section 4.4: the stale-job reclaimer finds an in-progress job that has not
\* advanced within the timeout and re-enqueues it with the attempt count
\* incremented.  It reads the Job Store only: a worker that is slow and a
\* worker that crashed look the same to it.
Reclaim(j) ==
    /\ Len(faults) < MaxFaults
    /\ jobs[j].state \in {"TRANSCRIBING", "SUMMARIZING"}
    /\ queue' = Append(queue, Msg(j, StageOf(jobs[j].state), jobs[j].attempt + 1))
    /\ faults' = Append(faults, "reclaim")
    /\ UNCHANGED <<mockVars, laneVars, uiVars>>
    /\ UNCHANGED <<jobs, worker, fin, meetings, reply>>

\* Section 5: the global per-job timeout escalates to FAILED whatever
\* attempts remain (the edge from any non-terminal state).
JobTimeout(j) ==
    /\ jobs[j].state \in JobStates \ Terminal
    /\ LET st == jobs[j].state
           upd == Upd("add", 0, 0, Entry("job timeout", "T", 0),
                      [kind |-> "TransientServiceError", message |-> "job timeout"])
       IN jobs' = [jobs EXCEPT ![j] = Transition(@, st, "FAILED", upd)]
    /\ UNCHANGED <<mockVars, laneVars, uiVars>>
    /\ UNCHANGED <<queue, worker, fin, meetings, reply, faults>>

\* The tags a Meeting can carry: none, as finalize is called in the scenario
\* of section 8, or one set by a later edit.
MeetingTags == { {}, {"crm"} }

\* Section 4.5 finalize: the Meeting record made from the job's results (the
\* progress entries of its log stand for the transcript and the summary)
\* plus the supplied metadata.
NewMeeting(j, job) ==
    [job |-> j, tags |-> {},
     content |-> Cardinality({i \in DOMAIN job.log : job.log[i][1] = "done"})]

\* MeetingEdit that notes the edit in the originating job's log.
MeetingEditLogged(job, tags) ==
    [job EXCEPT !.log = Append(@, Entry("meeting updated", "S", 0))]

\* Section 3, lifecycle: what an edit of a Meeting does to the originating
\* job, which is nothing.
MeetingEdit(job, tags) == job

\* Section 3, lifecycle: a client edits the tags of a Meeting.
UpdateMeeting(i, tags) ==
    /\ i \in DOMAIN meetings
    /\ tags # meetings[i].tags
    /\ meetings' = [meetings EXCEPT ![i].tags = tags]
    /\ jobs' = [jobs EXCEPT ![meetings[i].job] = MeetingEdit(@, tags)]
    /\ UNCHANGED <<mockVars, laneVars, uiVars>>
    /\ UNCHANGED <<queue, worker, fin, reply, faults>>

\* Section 4.5 finalize, first half: rejected with InvalidStateError unless
\* the job is REVIEW_READY, else the Meeting record is created.
FinalizeBegin(j) ==
    /\ fin.pc = "idle"
    /\ jobs[j].state # "NONE"
    /\ IF jobs[j].state # "REVIEW_READY"
       THEN /\ fin' = [pc |-> "idle", job |-> j, result |-> "InvalidStateError"]
            /\ UNCHANGED meetings
       ELSE /\ fin' = [pc |-> "created", job |-> j, result |-> "none"]
            /\ meetings' = Append(meetings, NewMeeting(j, jobs[j]))
    /\ UNCHANGED <<mockVars, laneVars, uiVars>>
    /\ UNCHANGED <<jobs, queue, worker, reply, faults>>

\* Section 4.5 finalize, second half: CAS-transition to COMPLETED.
FinalizeCas ==
    /\ fin.pc = "created"
    /\ LET j == fin.job
           upd == Upd("add", 0, 0, Entry("finalized", "S", 0), NoError)
           res == TransitionResult(jobs[j], "REVIEW_READY", "COMPLETED")
       IN /\ jobs' = [jobs EXCEPT ![j] = Transition(@, "REVIEW_READY", "COMPLETED", upd)]
          /\ fin' = [pc |-> "idle", job |-> j, result |-> res]
    /\ UNCHANGED <<mockVars, laneVars, uiVars>>
    /\ UNCHANGED <<queue, worker, meetings, reply, faults>>

\* Section 4.5 getStatus: a pure read of what the polling client sees.
getStatus(j) ==
    [state |-> jobs[j].state, progress |-> jobs[j].progress,
     log |-> jobs[j].log, error |-> jobs[j].error]

\* Section 8, "no illegal transitions": some actor calls transition with a
\* pair that is no edge, or with an expectedState the job is not in.
Probe(j, expected, next) ==
    /\ jobs[j].state # "NONE"
    /\ jobs[j].state # expected \/ ~Legal(expected, next)
    /\ reply' = TransitionResult(jobs[j], expected, next)
    /\ jobs' = [jobs EXCEPT ![j] =
           Transition(@, expected, next, Upd("add", 0, 0, Entry("probe", "T", 0), NoError))]
    /\ UNCHANGED <<mockVars, laneVars, uiVars>>
    /\ UNCHANGED <<queue, worker, fin, meetings, faults>>

\* The pipeline when every message is delivered once and no worker crashes
\* or stalls.
Next ==
    \/ \E j \in Jobs, r \in SourceRefs : Create(j, r)
    \/ \E w \in Workers : Dequeue(w)
    \/ \E w \in Workers : Start(w)
    \/ \E w \in Workers : Callback(w)
    \/ \E w \in Workers : FinishOk(w)
    \/ \E w \in Workers, o \in {"transient", "permanent"} : FinishError(w, o)
    \/ \E j \in Jobs : JobTimeout(j)
    \/ \E j \in Jobs : FinalizeBegin(j)
    \/ FinalizeCas
    \/ \E i \in 1..Cardinality(Jobs), tags \in MeetingTags : UpdateMeeting(i, tags)
    \/ \E j \in Jobs, e \in JobStates, n \in JobStates : Probe(j, e, n)

\* The pipeline with redelivery, worker crashes and the stale-job reclaimer.
NextFaults ==
    \/ \E j \in Jobs, r \in SourceRefs : Create(j, r)
    \/ \E w \in Workers : Dequeue(w)
    \/ \E w \in Workers : DequeueRedelivered(w)
    \/ \E w \in Workers : Start(w)
    \/ \E w \in Workers : Callback(w)
    \/ \E w \in Workers : FinishOk(w)
    \/ \E w \in Workers, o \in {"transient", "permanent"} : FinishError(w, o)
    \/ \E w \in Workers : Crash(w)
    \/ \E j \in Jobs : Reclaim(j)
    \/ \E j \in Jobs : JobTimeout(j)
    \/ \E j \in Jobs : FinalizeBegin(j)
    \/ FinalizeCas

(***************************************************************************)
(* Part C: the lanes of the queue and the worker that listens on them      *)
(***************************************************************************)
\* scripts/start_worker.sh: rq worker --with-scheduler default high_priority.
\* An RQ worker reads the queues it is given in the order they are given: it
\* takes a job from a later queue only when every earlier one is empty.
ListenOrder == << "default", "high_priority" >>
Lanes == {ListenOrder[i] : i \in DOMAIN ListenOrder}

LaneInit ==
    /\ lanes = [l \in Lanes |-> 0]
    /\ tracked = [l \in Lanes |-> 0]

\* Section 4.2 enqueue(jobId, priority): a job joins the end of its lane; mark
\* says whether it is the job whose wait is followed.
LaneEnqueue(lane, mark) ==
    /\ lanes[lane] < MaxLane
    /\ lanes' = [lanes EXCEPT ![lane] = @ + 1]
    /\ tracked' = IF mark /\ tracked[lane] = 0
                  THEN [tracked EXCEPT ![lane] = lanes[lane] + 1]
                  ELSE tracked
    /\ UNCHANGED <<mockVars, pipeVars, uiVars>>

\* The lane the worker takes its next job from.
FirstReady ==
    ListenOrder[CHOOSE i \in DOMAIN ListenOrder :
                    /\ lanes[ListenOrder[i]] > 0
                    /\ \A k \in 1..(i-1) : lanes[ListenOrder[k]] = 0]

\* The worker takes the job at the head of the first lane that holds one.
LaneDequeue ==
    /\ \E l \in Lanes : lanes[l] > 0
    /\ lanes' = [lanes EXCEPT ![FirstReady] = @ - 1]
    /\ tracked' = [tracked EXCEPT ![FirstReady] = IF @ > 0 THEN @ - 1 ELSE 0]
    /\ UNCHANGED <<mockVars, pipeVars, uiVars>>

NextLanes ==
    \/ \E l \in Lanes, mark \in BOOLEAN : LaneEnqueue(l, mark)
    \/ LaneDequeue

(***************************************************************************)
(* Part D: the task list page and the router                               *)
(***************************************************************************)
MaxListed == 1      \* tasks in a fetched list

\* The values of ProcessingTask.progress told apart.
ProgressSeen == {0, 50, 100}

\* What GET /tasks can answer with: the tasks of the workspace, each with any
\* status and any progress (spec.md section 9: progress is seen at 100% while
\* the status is still processing).
TaskLists ==
    UNION { [1..n -> [status : TaskStatus, progress : ProgressSeen]] : n \in 0..MaxListed }

\* The task list as the page holds it: the task in place i has id i.
Listed(list) ==
    [i \in 1..Len(list) |->
        [id |-> i, status |-> list[i].status, progress |-> list[i].progress]]

MeetingIds == {"m_1"}

NoMutation == [status |-> "idle", taskId |-> 0, seen |-> "none", progress |-> 0]

PageInit ==
    /\ pageTasks = << >>
    /\ selectedTaskId = 0
    /\ reviewTitle = ""
    /\ finalizeMutation = NoMutation
    /\ location = << "app", "tasks" >>

OnTasksPage == location = << "app", "tasks" >>

\* useQuery queryFn resolves: the page holds the list the API answered with.
TasksFetched(list) ==
    /\ OnTasksPage
    /\ pageTasks' = Listed(list)
    /\ UNCHANGED <<selectedTaskId, reviewTitle, finalizeMutation, location>>
    /\ UNCHANGED <<mockVars, pipeVars, laneVars, uiButPage>>

\* TasksPage: the condition under which a task is treated as ready for
\* review (handleTaskClick and the "Review & Configure" form).
ShowsReviewForm(task) ==
    \/ task.status = "review_ready"
    \/ (task.status = "completed" /\ task.progress = 100)
    \/ (task.status = "processing" /\ task.progress = 100)

\* const selectedTask = tasks.find((t) => t.id === selectedTaskId)
HasSelectedTask == \E i \in 1..Len(pageTasks) : pageTasks[i].id = selectedTaskId
selectedTask ==
    pageTasks[CHOOSE i \in 1..Len(pageTasks) : pageTasks[i].id = selectedTaskId]

\* The review form with its save button is rendered.
FormShown ==
    /\ OnTasksPage
    /\ selectedTaskId # 0
    /\ HasSelectedTask
    /\ ShowsReviewForm(selectedTask)

\* handleTaskClick: select the task; a task ready for review gets its title
\* preset from the file name.
handleTaskClick(i) ==
    /\ OnTasksPage
    /\ i \in 1..Len(pageTasks)
    /\ selectedTaskId' = pageTasks[i].id
    /\ reviewTitle' = IF ShowsReviewForm(pageTasks[i]) THEN "from file name" ELSE reviewTitle
    /\ UNCHANGED <<pageTasks, finalizeMutation, location>>
    /\ UNCHANGED <<mockVars, pipeVars, laneVars, uiButPage>>

\* The close button of the detail panel: setSelectedTaskId(null).
ClosePanel ==
    /\ OnTasksPage
    /\ selectedTaskId # 0
    /\ selectedTaskId' = 0
    /\ UNCHANGED <<pageTasks, reviewTitle, finalizeMutation, location>>
    /\ UNCHANGED <<mockVars, pipeVars, laneVars, uiButPage>>

\* The user edits the title field of the review form.
setReviewTitle(title) ==
    /\ FormShown
    /\ title # reviewTitle
    /\ reviewTitle' = title
    /\ UNCHANGED <<pageTasks, selectedTaskId, finalizeMutation, location>>
    /\ UNCHANGED <<mockVars, pipeVars, laneVars, uiButPage>>

\* handleSave, from the save button (disabled without a title or while the
\* mutation is pending): finalizeMutation.mutate for the selected task.
handleSave ==
    /\ FormShown
    /\ reviewTitle # ""
    /\ finalizeMutation.status # "pending"
    /\ finalizeMutation' = [status |-> "pending", taskId |-> selectedTaskId,
                            seen |-> selectedTask.status,
                            progress |-> selectedTask.progress]
    /\ UNCHANGED <<pageTasks, selectedTaskId, reviewTitle, location>>
    /\ UNCHANGED <<mockVars, pipeVars, laneVars, uiButPage>>

\* finalizeMutation.onSuccess: navigate(`/meetings/${meeting.id}`).
FinalizedPath(meetingId) == << "meetings", meetingId >>

\* tasksApi.finalize resolved with the new meeting: onSuccess clears the
\* selection and navigates.
FinalizeSucceeded(meetingId) ==
    /\ finalizeMutation.status = "pending"
    /\ finalizeMutation' = [finalizeMutation EXCEPT !.status = "success"]
    /\ selectedTaskId' = 0
    /\ location' = FinalizedPath(meetingId)
    /\ UNCHANGED <<pageTasks, reviewTitle>>
    /\ UNCHANGED <<mockVars, pipeVars, laneVars, uiButPage>>

\* tasksApi.finalize rejected: onError shows the message.
FinalizeFailed ==
    /\ finalizeMutation.status = "pending"
    /\ finalizeMutation' = [finalizeMutation EXCEPT !.status = "error"]
    /\ UNCHANGED <<pageTasks, selectedTaskId, reviewTitle, location>>
    /\ UNCHANGED <<mockVars, pipeVars, laneVars, uiButPage>>

\* App.tsx: the route paths, in the order they are declared.
RoutePaths ==
    << << >>, << "auth" >>, << "app" >>, << "app", "meetings" >>,
       << "app", "meetings", ":id" >>, << "app", "calendar" >>,
       << "app", "tasks" >>, << "app", "upload" >>, << "app", "projects" >>,
       << "app", "team" >>, << "app", "settings" >>, << "*" >> >>

DetailRoute == << "app", "meetings", ":id" >>
CatchAll == << "*" >>

\* Whether a route path matches a location: "*" matches anything, a ":id"
\* segment matches any one segment, any other segment matches itself.
Matches(route, path) ==
    \/ route = CatchAll
    \/ /\ Len(route) = Len(path)
       /\ \A k \in 1..Len(route) : route[k] = ":id" \/ route[k] = path[k]

\* The route that renders a location: the first declared route that matches
\* (the catch-all is declared last and ranks last).
RouteOf(path) ==
    RoutePaths[CHOOSE i \in 1..Len(RoutePaths) :
                  /\ Matches(RoutePaths[i], path)
                  /\ \A k \in 1..(i-1) : ~Matches(RoutePaths[k], path)]

\* The catch-all route renders <Navigate to="/app" replace /> for a signed-in
\* user.
CatchAllRedirect ==
    /\ RouteOf(location) = CatchAll
    /\ location' = << "app" >>
    /\ UNCHANGED <<pageTasks, selectedTaskId, reviewTitle, finalizeMutation>>
    /\ UNCHANGED <<mockVars, pipeVars, laneVars, uiButPage>>

\* DashboardPage.handleMeetingClick: navigate(`/app/meetings/${id}`).
handleMeetingClick(id) ==
    /\ location = << "app" >>
    /\ location' = << "app", "meetings", id >>
    /\ UNCHANGED <<pageTasks, selectedTaskId, reviewTitle, finalizeMutation>>
    /\ UNCHANGED <<mockVars, pipeVars, laneVars, uiButPage>>

\* The sidebar link to the task list.
OpenTasks ==
    /\ ~OnTasksPage
    /\ RouteOf(location) # CatchAll
    /\ location' = << "app", "tasks" >>
    /\ UNCHANGED <<pageTasks, selectedTaskId, reviewTitle, finalizeMutation>>
    /\ UNCHANGED <<mockVars, pipeVars, laneVars, uiButPage>>

NextPage ==
    \/ \E list \in TaskLists : TasksFetched(list)
    \/ \E i \in 1..MaxListed : handleTaskClick(i)
    \/ ClosePanel
    \/ \E title \in {"", "Sync"} : setReviewTitle(title)
    \/ handleSave
    \/ \E m \in MeetingIds : FinalizeSucceeded(m)
    \/ FinalizeFailed
    \/ CatchAllRedirect
    \/ \E m \in MeetingIds : handleMeetingClick(m)
    \/ OpenTasks

(***************************************************************************)
(* Part E: the upload page                                                 *)
(***************************************************************************)
MaxFiles == 3       \* files the user selects
MaxUploads == 4     \* meetingsApi.create calls that succeed

NoRun == [pc |-> "idle", batch |-> << >>, k |-> 0]

UploadInit ==
    /\ files = << >>
    /\ justQueuedCount = 0
    /\ queueRun = NoRun
    /\ uploads = << >>
    /\ nextFile = 1

\* How many times a file was uploaded.
Times(f) == Cardinality({i \in DOMAIN uploads : uploads[i] = f})

\* handleFileSelect / handleFileDrop: the selected audio file joins the list.
handleFileSelect ==
    /\ justQueuedCount = 0
    /\ nextFile <= MaxFiles
    /\ files' = Append(files, nextFile)
    /\ nextFile' = nextFile + 1
    /\ UNCHANGED <<justQueuedCount, queueRun, uploads>>
    /\ UNCHANGED <<mockVars, pipeVars, laneVars, uiButUpload>>

\* removeFile(index)
removeFile(index) ==
    /\ justQueuedCount = 0
    /\ index \in 1..Len(files)
    /\ files' = [i \in 1..(Len(files) - 1) |->
                    IF i < index THEN files[i] ELSE files[i + 1]]
    /\ UNCHANGED <<justQueuedCount, queueRun, uploads, nextFile>>
    /\ UNCHANGED <<mockVars, pipeVars, laneVars, uiButUpload>>

\* handleQueueTask, up to the first await: the button is there while files
\* is not empty and is disabled while an upload is pending; the loop runs
\* over the files the handler was rendered with.
handleQueueTask ==
    /\ justQueuedCount = 0
    /\ files # << >>
    /\ queueRun.pc = "idle"
    /\ queueRun' = [pc |-> "uploading", batch |-> files, k |-> 1]
    /\ UNCHANGED <<files, justQueuedCount, uploads, nextFile>>
    /\ UNCHANGED <<mockVars, pipeVars, laneVars, uiButUpload>>

\* await uploadMutation.mutateAsync(file) resolves: the file is uploaded;
\* after the last file of the batch, setJustQueuedCount and setFiles([]).
UploadResolved ==
    /\ queueRun.pc = "uploading"
    /\ Len(uploads) < MaxUploads
    /\ uploads' = Append(uploads, queueRun.batch[queueRun.k])
    /\ IF queueRun.k < Len(queueRun.batch)
       THEN /\ queueRun' = [queueRun EXCEPT !.k = @ + 1]
            /\ UNCHANGED <<files, justQueuedCount>>
       ELSE /\ queueRun' = NoRun
            /\ justQueuedCount' = Len(queueRun.batch)
            /\ files' = << >>
    /\ UNCHANGED nextFile
    /\ UNCHANGED <<mockVars, pipeVars, laneVars, uiButUpload>>

\* await uploadMutation.mutateAsync(file) rejects: the catch block shows the
\* message; files stays as it is.
UploadRejected ==
    /\ queueRun.pc = "uploading"
    /\ queueRun' = NoRun
    /\ UNCHANGED <<files, justQueuedCount, uploads, nextFile>>
    /\ UNCHANGED <<mockVars, pipeVars, laneVars, uiButUpload>>

\* The "Upload More" button: setJustQueuedCount(0).
UploadMore ==
    /\ justQueuedCount > 0
    /\ justQueuedCount' = 0
    /\ UNCHANGED <<files, queueRun, uploads, nextFile>>
    /\ UNCHANGED <<mockVars, pipeVars, laneVars, uiButUpload>>

NextUpload ==
    \/ handleFileSelect
    \/ \E index \in 1..MaxFiles : removeFile(index)
    \/ handleQueueTask
    \/ UploadResolved
    \/ UploadRejected
    \/ UploadMore

(***************************************************************************)
(* Part F: the auth context                                                *)
(***************************************************************************)
AuthCalls == {"checkAuth", "login", "register", "refetchUser"}
Users == {"u1", "u2"}

\* The token the backend issues to a user, and the user a token belongs to.
TokenOf(u) == IF u = "u1" THEN "t1" ELSE "t2"
UserOf(token) == IF token = "t1" THEN "u1" ELSE "u2"

\* AuthProvider as constructed, with the token an earlier session left.
AuthInit(stored) ==
    /\ user = "null"
    /\ isLoading = TRUE
    /\ authToken = stored
    /\ authRequests = [c \in AuthCalls |-> "idle"]
    /\ signedOut = FALSE

\* client.ts request interceptor: a request carries the token stored when it
\* is sent.
Carries == IF authToken = "null" THEN "anonymous" ELSE authToken

\* The mount effect, checkAuth, up to its await: with a stored token it asks
\* for the current user, without one it ends the loading state.
checkAuth ==
    /\ authRequests["checkAuth"] = "idle"
    /\ IF authToken = "null"
       THEN /\ isLoading' = FALSE
            /\ authRequests' = [authRequests EXCEPT !["checkAuth"] = "done"]
       ELSE /\ authRequests' = [authRequests EXCEPT !["checkAuth"] = Carries]
            /\ UNCHANGED isLoading
    /\ UNCHANGED <<user, authToken, signedOut>>
    /\ UNCHANGED <<mockVars, pipeVars, laneVars, uiButAuth>>

\* checkAuth after the await: the user is set, or the token is removed.
checkAuthSettled(ok) ==
    /\ authRequests["checkAuth"] \notin {"idle", "done"}
    /\ ok => authRequests["checkAuth"] # "anonymous"
    /\ user' = IF ok THEN UserOf(authRequests["checkAuth"]) ELSE user
    /\ authToken' = IF ok THEN authToken ELSE "null"
    /\ isLoading' = FALSE
    /\ authRequests' = [authRequests EXCEPT !["checkAuth"] = "done"]
    /\ UNCHANGED signedOut
    /\ UNCHANGED <<mockVars, pipeVars, laneVars, uiButAuth>>

\* App renders its routes, and with them the pages that call the context,
\* once isLoading is false.
AppRendered == ~isLoading

\* A request of the context is sent (login, register from AuthPage, or
\* refetchUser), up to its await.
AuthSend(call) ==
    /\ AppRendered
    /\ call \in {"login", "register", "refetchUser"}
    /\ authRequests[call] = "idle"
    /\ authRequests' = [authRequests EXCEPT ![call] = Carries]
    /\ UNCHANGED <<user, isLoading, authToken, signedOut>>
    /\ UNCHANGED <<mockVars, pipeVars, laneVars, uiButAuth>>

\* login after the await, and AuthPage.handleSubmit after authApi.register,
\* when the request succeeded: the user is set and the token stored.
signInSucceeded(call, u) ==
    /\ call \in {"login", "register"}
    /\ authRequests[call] # "idle"
    /\ user' = u
    /\ authToken' = TokenOf(u)
    /\ signedOut' = FALSE
    /\ authRequests' = [authRequests EXCEPT ![call] = "idle"]
    /\ UNCHANGED isLoading
    /\ UNCHANGED <<mockVars, pipeVars, laneVars, uiButAuth>>

\* login or register failed: the error is shown, nothing is stored.
signInFailed(call) ==
    /\ call \in {"login", "register"}
    /\ authRequests[call] # "idle"
    /\ authRequests' = [authRequests EXCEPT ![call] = "idle"]
    /\ UNCHANGED <<user, isLoading, authToken, signedOut>>
    /\ UNCHANGED <<mockVars, pipeVars, laneVars, uiButAuth>>

\* logout: setUser(null) and the token removed.
logout ==
    /\ AppRendered
    /\ user # "null"
    /\ user' = "null"
    /\ authToken' = "null"
    /\ signedOut' = TRUE
    /\ UNCHANGED <<isLoading, authRequests>>
    /\ UNCHANGED <<mockVars, pipeVars, laneVars, uiButAuth>>

\* refetchUser after the await: the user is set from the response; on an
\* error the token is removed and the user cleared.  GET /auth/me succeeds
\* only for a request that carried a token, and answers with that token's
\* user.
refetchUserSettled(ok) ==
    /\ authRequests["refetchUser"] # "idle"
    /\ ok => authRequests["refetchUser"] # "anonymous"
    /\ user' = IF ok THEN UserOf(authRequests["refetchUser"]) ELSE "null"
    /\ authToken' = IF ok THEN authToken ELSE "null"
    /\ authRequests' = [authRequests EXCEPT !["refetchUser"] = "idle"]
    /\ UNCHANGED <<isLoading, signedOut>>
    /\ UNCHANGED <<mockVars, pipeVars, laneVars, uiButAuth>>

NextAuth ==
    \/ checkAuth
    \/ \E ok \in BOOLEAN : checkAuthSettled(ok)
    \/ \E call \in AuthCalls : AuthSend(call)
    \/ \E call \in AuthCalls, u \in Users : signInSucceeded(call, u)
    \/ \E call \in AuthCalls : signInFailed(call)
    \/ logout
    \/ \E ok \in BOOLEAN : refetchUserSettled(ok)

(***************************************************************************)
(* Part G: the meeting detail page                                         *)
(***************************************************************************)
MaxPolls == 3       \* fetches started by the refetch interval

\* Meeting.status
MeetingStatus == {"uploaded", "transcribing", "summarizing", "completed",
                  "failed", "scheduled"}

DetailIds == {"m_1", "m_2"}

\* query.state.data before the first fetch of a key resolves.
NoMeeting == [id |-> "none", status |-> "undefined"]

DetailInit ==
    /\ meeting = NoMeeting
    /\ detailId = "none"
    /\ fetching = "none"
    /\ intervalFetches = 0

DetailPollMs == 3000

\* Mutant: the detail page also polls a meeting that is being transcribed.
detailRefetchIntervalProcessing(data) ==
    IF data.status \in {"transcribing", "summarizing"} THEN DetailPollMs ELSE 0

\* MeetingDetailPage useQuery refetchInterval: meeting?.status ===
\* 'summarizing' ? 3000 : false; 0 stands for false.
detailRefetchInterval(data) ==
    IF data.status = "summarizing" THEN DetailPollMs ELSE 0

\* The route /app/meetings/:id is entered with an id: the query of that key
\* has no data yet (gcTime 0) and fetches.
OpenMeeting(id) ==
    /\ detailId # id
    /\ detailId' = id
    /\ meeting' = NoMeeting
    /\ fetching' = "asked"
    /\ UNCHANGED intervalFetches
    /\ UNCHANGED <<mockVars, pipeVars, laneVars, uiButDetail>>

\* The page asks for a fetch: refetch() of the id effect, or
\* invalidateQueries after an update.
RefetchAsked ==
    /\ detailId # "none"
    /\ fetching = "none"
    /\ fetching' = "asked"
    /\ UNCHANGED <<meeting, detailId, intervalFetches>>
    /\ UNCHANGED <<mockVars, pipeVars, laneVars, uiButDetail>>

\* The refetch interval elapses and starts a fetch.
IntervalElapsed ==
    /\ detailId # "none"
    /\ fetching = "none"
    /\ detailRefetchInterval(meeting) # 0
    /\ intervalFetches < MaxPolls
    /\ intervalFetches' = intervalFetches + 1
    /\ fetching' = "interval"
    /\ UNCHANGED <<meeting, detailId>>
    /\ UNCHANGED <<mockVars, pipeVars, laneVars, uiButDetail>>

\* meetingsApi.get resolves with the meeting in some status.
MeetingFetched(status) ==
    /\ fetching # "none"
    /\ meeting' = [id |-> detailId, status |-> status]
    /\ fetching' = "none"
    /\ UNCHANGED <<detailId, intervalFetches>>
    /\ UNCHANGED <<mockVars, pipeVars, laneVars, uiButDetail>>

NextDetail ==
    \/ \E id \in DetailIds : OpenMeeting(id)
    \/ RefetchAsked
    \/ IntervalElapsed
    \/ \E status \in MeetingStatus : MeetingFetched(status)

(***************************************************************************)
(* Part H: the workspace context                                           *)
(***************************************************************************)
MaxWorkspaces == 3  \* entries of the workspaces list

WorkspaceIds == {"w1", "w2"}
WsCallKinds == {"switch", "create", "join"}

\* user.workspaces of the users the provider may be given; the empty list
\* also stands for no user.
UserWorkspaceLists == { << >>, << "w1" >>, << "w2" >>, << "w1", "w2" >> }

NoWsCall == [st |-> "idle", id |-> "none", closure |-> << >>]

WsInit ==
    /\ activeWorkspace = "null"
    /\ workspaces = << >>
    /\ wsCalls = [k \in WsCallKinds |-> NoWsCall]

\* Whether a list of workspaces holds one with the id.
Holds(list, id) == \E i \in 1..Len(list) : list[i] = id

\* The useEffect on user: the list is replaced by user.workspaces and the
\* active workspace is the one user.workspaceId names, else the first, else
\* null.
UserChanged(list, workspaceId) ==
    /\ workspaces' = list
    /\ activeWorkspace' = IF Holds(list, workspaceId) THEN workspaceId
                          ELSE IF list # << >> THEN list[1]
                          ELSE "null"
    /\ <<workspaces', activeWorkspace'>> # <<workspaces, activeWorkspace>>
    /\ UNCHANGED wsCalls
    /\ UNCHANGED <<mockVars, pipeVars, laneVars, uiButWs>>

\* What the API of a call can answer with: switch takes any id, create
\* answers with a new workspace, join with the workspace of the invite code.
WsAnswers(kind) ==
    IF kind = "create" THEN {"w3"} ELSE WorkspaceIds \cup {"w3"}

\* switchWorkspace, createWorkspace or joinWorkspace up to its await.  The
\* switch function was made by the render that saw the current workspaces
\* and reads them after the await; the other two read no state of the render.
WsCall(kind, id) ==
    /\ wsCalls[kind].st = "idle"
    /\ id \in WsAnswers(kind)
    /\ wsCalls' = [wsCalls EXCEPT ![kind] =
           [st |-> "pending", id |-> id,
            closure |-> IF kind = "switch" THEN workspaces ELSE << >>]]
    /\ UNCHANGED <<activeWorkspace, workspaces>>
    /\ UNCHANGED <<mockVars, pipeVars, laneVars, uiButWs>>

\* switchWorkspace after the await: the workspace is looked up in the
\* workspaces of the render the function was made by.
switchSettled ==
    /\ wsCalls["switch"].st = "pending"
    /\ activeWorkspace' = IF Holds(wsCalls["switch"].closure, wsCalls["switch"].id)
                          THEN wsCalls["switch"].id ELSE activeWorkspace
    /\ wsCalls' = [wsCalls EXCEPT !["switch"] = NoWsCall]
    /\ UNCHANGED workspaces
    /\ UNCHANGED <<mockVars, pipeVars, laneVars, uiButWs>>

\* createWorkspace or joinWorkspace after the await: the workspace the API
\* answered with is appended to the current list and made active.
addSettled(kind) ==
    /\ kind \in {"create", "join"}
    /\ wsCalls[kind].st = "pending"
    /\ Len(workspaces) < MaxWorkspaces
    /\ workspaces' = Append(workspaces, wsCalls[kind].id)
    /\ activeWorkspace' = wsCalls[kind].id
    /\ wsCalls' = [wsCalls EXCEPT ![kind] = NoWsCall]
    /\ UNCHANGED <<mockVars, pipeVars, laneVars, uiButWs>>

\* The API call of a switch, create or join fails: the error is rethrown.
wsCallFailed(kind) ==
    /\ wsCalls[kind].st = "pending"
    /\ wsCalls' = [wsCalls EXCEPT ![kind] = NoWsCall]
    /\ UNCHANGED <<activeWorkspace, workspaces>>
    /\ UNCHANGED <<mockVars, pipeVars, laneVars, uiButWs>>

NextWs ==
    \/ \E list \in UserWorkspaceLists, w \in WorkspaceIds : UserChanged(list, w)
    \/ \E kind \in WsCallKinds, id \in WorkspaceIds \cup {"w3"} : WsCall(kind, id)
    \/ switchSettled
    \/ \E kind \in {"create", "join"} : addSettled(kind)
    \/ \E kind \in WsCallKinds : wsCallFailed(kind)

\* The provider mounts with or without a token from an earlier session.
InitAuth ==
    /\ MockInit /\ PipeInit /\ LaneInit
    /\ PollInit /\ PageInit /\ UploadInit /\ DetailInit /\ WsInit
    /\ \E stored \in {"null"} \cup {TokenOf(u) : u \in Users} : AuthInit(stored)

UiInit ==
    /\ PollInit /\ PageInit /\ UploadInit /\ AuthInit("null") /\ DetailInit
    /\ WsInit

Init == MockInit /\ PipeInit /\ LaneInit /\ UiInit

Spec == Init /\ [][Next]_vars

SpecFaults == Init /\ [][NextFaults]_vars

\* Whether some worker holds a message of job j.
Held(j) == \E w \in Workers : worker[w].pc # "idle" /\ worker[w].msg.job = j

\* Whether a message of job j waits in the queue.
Queued(j) == \E i \in DOMAIN queue : queue[i].job = j

\* Section 4.4, the reclaimer on a job that is truly stale: in progress, held
\* by no worker and with no message waiting, so that it cannot advance and
\* the reclaimer's timeout is bound to expire.
ReclaimStale(j) ==
    /\ jobs[j].state \in {"TRANSCRIBING", "SUMMARIZING"}
    /\ ~Held(j)
    /\ ~Queued(j)
    /\ queue' = Append(queue, Msg(j, StageOf(jobs[j].state), jobs[j].attempt + 1))
    /\ UNCHANGED <<mockVars, laneVars, uiVars>>
    /\ UNCHANGED <<jobs, worker, fin, meetings, reply, faults>>

\* The pipeline with worker crashes and the reclaimer.
NextLive ==
    \/ \E j \in Jobs, r \in SourceRefs : Create(j, r)
    \/ \E w \in Workers : Dequeue(w)
    \/ \E w \in Workers : Start(w)
    \/ \E w \in Workers : Callback(w)
    \/ \E w \in Workers : FinishOk(w)
    \/ \E w \in Workers, o \in {"transient", "permanent"} : FinishError(w, o)
    \/ \E w \in Workers : Crash(w)
    \/ \E j \in Jobs : ReclaimStale(j)

\* Fair scheduling: some idle worker takes a waiting message, a worker that
\* loaded a job goes on, a handler ends (section 5: each invocation has a
\* hard timeout), and the reclaimer, which runs periodically, gets to a job
\* that stays stale.  A crash is never forced.
Live ==
    /\ WF_vars(\E w \in Workers : Dequeue(w))
    /\ \A w \in Workers : WF_vars(Start(w))
    /\ \A w \in Workers :
           WF_vars(FinishOk(w) \/ \E o \in {"transient", "permanent"} : FinishError(w, o))
    /\ \A j \in Jobs : WF_vars(ReclaimStale(j))

SpecLive == Init /\ [][NextLive]_vars /\ Live

\* The handler invocations a job has had so far.
Runs(j) == Cardinality({i \in DOMAIN jobs[j].log : jobs[j].log[i][1] = "start"})

\* Start, while the job has had fewer than MaxRuns handler invocations.
StartWithin(w) ==
    /\ worker[w].pc = "loaded"
    /\ Runs(worker[w].msg.job) < MaxRuns
    /\ Start(w)

\* The pipeline with redelivery, crashes and the reclaimer, explored up to
\* MaxRuns handler invocations per job.
NextRace ==
    \/ \E j \in Jobs, r \in SourceRefs : Create(j, r)
    \/ \E w \in Workers : Dequeue(w)
    \/ \E w \in Workers : DequeueRedelivered(w)
    \/ \E w \in Workers : StartWithin(w)
    \/ \E w \in Workers : Callback(w)
    \/ \E w \in Workers : FinishOk(w)
    \/ \E w \in Workers, o \in {"transient", "permanent"} : FinishError(w, o)
    \/ \E w \in Workers : Crash(w)
    \/ \E j \in Jobs : Reclaim(j)

SpecRace == Init /\ [][NextRace]_vars

\* The lanes with a worker that keeps taking jobs while there are any.
SpecLanes == Init /\ [][NextLanes]_vars /\ WF_vars(LaneDequeue)

InitMock == MockInit /\ PipeInit /\ LaneInit /\ UiInit

SpecMock == InitMock /\ [][MockNext]_vars

SpecPoll == InitMock /\ [][NextPoll]_vars

SpecPage == Init /\ [][NextPage]_vars

SpecUpload == Init /\ [][NextUpload]_vars

SpecAuth == InitAuth /\ [][NextAuth]_vars

SpecDetail == Init /\ [][NextDetail]_vars

SpecWs == Init /\ [][NextWs]_vars

(***************************************************************************)
(* Claims settled on Part A                                                *)
(***************************************************************************)
TaskOf(tasks, id) == tasks[FindIndex(tasks, id)]
Exists(tasks, id) == FindIndex(tasks, id) # 0
MeetingsFrom(taskId) ==
    {i \in 1..Len(mockMeetings) : mockMeetings[i].fromTask = taskId}

C2_FinalizeOnlyWhenReviewReady ==
    \A c \in 1..MaxCalls :
        (calls[c].st = "done" /\ calls[c].seen \in TaskStatus \ {"review_ready"})
        => (calls[c].result = "InvalidStateError" /\ calls[c].meeting = 0)

\* C3 (as claimed): when a finalize of a job returned a meeting id, a later
\* finalize of the same job is rejected with InvalidStateError, creates
\* nothing, and the job has exactly one meeting.
C3_SecondFinalizeInvalidState ==
    \A c1, c2 \in 1..MaxCalls :
        (/\ calls[c2].st = "done"
         /\ c1 \in calls[c2].prior
         /\ calls[c1].taskId = calls[c2].taskId
         /\ calls[c1].result = "ok")
        => (/\ calls[c2].result = "InvalidStateError"
            /\ calls[c2].meeting = 0
            /\ Cardinality(MeetingsFrom(calls[c2].taskId)) = 1)

\* C4: at most one meeting exists for any task, also when finalize calls for
\* the same task are in flight together.
C4_AtMostOneMeetingPerTask ==
    \A id \in TaskIds : Cardinality(MeetingsFrom(id)) <= 1

\* Two finalize calls for the same review_ready task were in flight together
\* and both have resolved, the first of them with a meeting.
C4_Witness ==
    \E c1, c2 \in 1..MaxCalls :
        /\ c1 # c2
        /\ c1 \in calls[c2].overlap
        /\ calls[c1].taskId = calls[c2].taskId
        /\ calls[c1].st = "done" /\ calls[c2].st = "done"
        /\ calls[c1].seen = "review_ready"
        /\ calls[c1].result = "ok"

\* C7: a task's progress never decreases from one state to the next (the mock
\* never retries a stage, so the exception for a restart is never used).
C7_ProgressMonotone ==
    [][\A id \in TaskIds :
         (Exists(mockTasks, id) /\ Exists(mockTasks', id))
         => TaskOf(mockTasks', id).progress >= TaskOf(mockTasks, id).progress]_mockVars

\* A created task has had its progress raised by all three callbacks.
C7_Witness ==
    \E id \in DOMAIN timers :
        /\ timers[id] = 4
        /\ Exists(mockTasks, id)
        /\ TaskOf(mockTasks, id).progress = 100

\* The meeting with the id, as meetingsApi.get finds it.
MeetingById(id) ==
    mockMeetings[CHOOSE i \in 1..Len(mockMeetings) : mockMeetings[i].id = id]

\* Whether s is a prefix of t.
IsPrefix(s, t) == Len(s) <= Len(t) /\ SubSeq(t, 1, Len(s)) = s

\* C14: create returns a job with state queued, progress 0 and a log that
\* holds exactly one entry, the "uploaded" (queued) entry.
C14_CreateStartsQueued ==
    [][Len(mockTasks') > Len(mockTasks) =>
         LET t == mockTasks'[Len(mockTasks')] IN
           /\ t.status = "queued"
           /\ t.progress = 0
           /\ t.logs = << "File uploaded successfully" >>]_mockVars

\* A task has been created in the second workspace.
C14_Witness ==
    \E i \in 1..Len(mockTasks) :
        /\ mockTasks[i].id >= FirstNewTask
        /\ mockTasks[i].workspaceId = "ws_2"
        /\ mockTasks[i].status = "queued"

\* C15: a task's log in any state extends its log in the state before:
\* entries are appended at the end, never removed, changed or reordered.
C15_LogAppendOnly ==
    [][\A id \in TaskIds :
         (Exists(mockTasks, id) /\ Exists(mockTasks', id))
         => IsPrefix(TaskOf(mockTasks, id).logs, TaskOf(mockTasks', id).logs)]_mockVars

\* A created task holds the seven log entries of a whole run.
C15_Witness ==
    \E id \in DOMAIN timers :
        /\ timers[id] = 4
        /\ Exists(mockTasks, id)
        /\ Len(TaskOf(mockTasks, id).logs) = 7

\* C17 (as claimed): after a successful finalize the task still exists, is
\* completed, keeps its log, and is returned by getTask and getTasks.
C17_FinalizeKeepsJob ==
    \A c \in 1..MaxCalls :
        (calls[c].st = "done" /\ calls[c].result = "ok")
        => /\ getTask(calls[c].taskId) # "undefined"
           /\ getTask(calls[c].taskId).status = "completed"
           /\ getTask(calls[c].taskId).logs # << >>
           /\ \E w \in Workspaces : \E i \in 1..Len(getTasks(w)) :
                  getTasks(w)[i].id = calls[c].taskId

\* C18 (as claimed): getTasks(W) returns only tasks of workspace W, and a
\* finalize issued for workspace A only finalizes a task owned by A.
C18_TenantScoped ==
    /\ \A w \in Workspaces : \A i \in 1..Len(getTasks(w)) :
           getTasks(w)[i].workspaceId = w
    /\ \A c \in 1..MaxCalls :
           (calls[c].st = "done" /\ calls[c].result = "ok")
           => MeetingById(calls[c].meeting).workspaceId = calls[c].data.workspaceId

\* Whether the fetched list holds a task whose status is in the set.
HasStatus(data, statuses) == \E i \in 1..Len(data) : data[i].status \in statuses

\* C20 (as claimed): the list keeps being fetched every 3000 ms exactly while
\* some listed task is in a non-terminal state.
C20_PollsWhileNonTerminal ==
    \A w \in Workspaces :
        HasStatus(getTasks(w), TaskStatus \ TerminalStatus)
            <=> refetchInterval(getTasks(w)) = 3000

\* C20 (as amended): the list keeps being fetched every 3000 ms exactly while
\* some listed task is queued or processing; a list whose tasks are all
\* review_ready, completed or failed is not polled.
C20_PollsWhileQueuedOrProcessing ==
    \A w \in Workspaces :
        /\ HasStatus(getTasks(w), {"queued", "processing"})
              <=> refetchInterval(getTasks(w)) = 3000
        /\ ~HasStatus(getTasks(w), {"queued", "processing"})
              <=> refetchInterval(getTasks(w)) = 0

\* One workspace lists only a review_ready task and is not polled, while the
\* other lists a processing task and is.
C20_Witness ==
    \E w1, w2 \in Workspaces :
        /\ getTasks(w1) # << >>
        /\ \A i \in 1..Len(getTasks(w1)) : getTasks(w1)[i].status = "review_ready"
        /\ refetchInterval(getTasks(w1)) = 0
        /\ HasStatus(getTasks(w2), {"processing"})
        /\ refetchInterval(getTasks(w2)) = 3000

C25_ReadyHasFullProgress ==
    \A i \in 1..Len(mockTasks) :
        mockTasks[i].status \in {"review_ready", "completed"}
            => mockTasks[i].progress = 100

\* A created task is review_ready at progress 100 after its log recorded the
\* half-way mark.
C25_Witness ==
    \E i \in 1..Len(mockTasks) :
        /\ mockTasks[i].id >= FirstNewTask
        /\ mockTasks[i].status = "review_ready"
        /\ mockTasks[i].progress = 100
        /\ mockTasks[i].logs[3] = "Transcription 50% complete"

\* C22: getStatus and listing tasks are pure reads: a poll leaves every
\* task's status, progress and log, the pending timers, the meetings and the
\* finalize calls in flight exactly as they were, and it returns what the
\* store holds, however many polls came before.
C22_PollIsPureRead ==
    [][(polled' # polled \/ (\E w \in Workspaces : PollList(w))
                         \/ (\E id \in TaskIds : PollGet(id)))
         => /\ mockVars' = mockVars
            /\ polled'.op = "list" => polled'.result = getTasks(polled'.workspaceId)
            /\ (polled'.op = "get" /\ polled'.error = "")
                   => polled'.result = << getTask(polled'.id) >>]_vars

\* The list of a workspace was polled while one of its tasks was processing
\* with a timer pending, and the poll returned that task.
C22_Witness ==
    /\ polled.op = "list"
    /\ \E i \in 1..Len(polled.result) :
           /\ polled.result[i].id >= FirstNewTask
           /\ polled.result[i].status = "processing"
           /\ polled.result[i].id \in DOMAIN timers
           /\ timers[polled.result[i].id] = 2

(***************************************************************************)
(* Claims about the job pipeline                                           *)
(***************************************************************************)
\* The workers whose handler is running on job j.
Active(j) == {w \in Workers : worker[w].pc = "running" /\ worker[w].msg.job = j}

\* How many entries of a log say `what` about the stage and attempt.
Count(log, what, stage, attempt) ==
    Cardinality({i \in DOMAIN log : log[i] = Entry(what, stage, attempt)})

\* How many entries of a log say `what` about the stage, on any attempt.
CountStage(log, what, stage) ==
    Cardinality({i \in DOMAIN log : log[i][1] = what /\ log[i][2] = stage})

Last(log) == log[Len(log)]

\* The job's log gained exactly the entry saying `what`.
Logged(j, what) ==
    /\ Len(jobs'[j].log) = Len(jobs[j].log) + 1
    /\ Last(jobs'[j].log)[1] = what

\* C5: at any time at most one worker holds an active attempt on a given
\* job, also when the queue redelivers the job's message and when the
\* reclaimer re-enqueues a job whose worker is still running.
C5_AtMostOneActiveAttempt == \A j \in Jobs : Cardinality(Active(j)) <= 1

\* C6: when a message is delivered twice (no crash, no reclaim), the second
\* execution is a no-op: the handler of a stage attempt runs once and its
\* progress is charged once.
C6_RedeliveryIsNoOp ==
    (\A i \in DOMAIN faults : faults[i] = "redelivery") =>
        \A j \in Jobs, stage \in Stages, a \in 1..maxAttempts :
            /\ Count(jobs[j].log, "start", stage, a) <= 1
            /\ Count(jobs[j].log, "progress", stage, a) <= 1

\* C8, the end: a job that FAILED on a handler's TransientServiceError has
\* had exactly maxAttempts invocations of that stage's handler, records
\* attempt = maxAttempts, and has one log entry per failed attempt.
RetryExhausted(j) ==
    LET log == jobs[j].log
        stage == Last(log)[2]
    IN /\ CountStage(log, "start", stage) = maxAttempts
       /\ jobs[j].attempt = maxAttempts
       /\ \A a \in 1..maxAttempts :
              /\ Count(log, "start", stage, a) = 1
              /\ Count(log, "transient", stage, a) = 1

\* C8, the way there: a transient failure before exhaustion leaves the state
\* unchanged and re-enqueues the stage with attempt + 1.
RetryStep(j) ==
    (Logged(j, "transient") /\ Last(jobs'[j].log)[3] < maxAttempts) =>
        /\ jobs'[j].state = jobs[j].state
        /\ queue' = Append(queue, Msg(j, Last(jobs'[j].log)[2],
                                      Last(jobs'[j].log)[3] + 1))

PermanentStep(j) ==
    Logged(j, "permanent") =>
        /\ jobs'[j].state = "FAILED"
        /\ jobs'[j].attempt = Last(jobs'[j].log)[3]
        /\ jobs'[j].attempt = jobs[j].attempt
        /\ queue' = queue
        /\ jobs'[j].error.kind = "PermanentServiceError"
        /\ jobs'[j].error.message = "unsupported codec"

\* C9, afterwards: the job is not retried; when the stage had not failed
\* before, attempt is 1.
NotRetried(j) ==
    LET log == jobs[j].log
        stage == Last(log)[2]
    IN /\ Last(log)[1] = "permanent"
       /\ CountStage(log, "start", stage) = jobs[j].attempt
       /\ CountStage(log, "transient", stage) = 0 => jobs[j].attempt = 1
       /\ \A i \in DOMAIN queue : queue[i].job # j
       /\ \A w \in Workers : worker[w].pc = "idle"

ExpectedBy(w) ==
    IF worker[w].pc = "loaded" THEN Expected(worker[w].msg)
    ELSE InProgress(worker[w].msg.stage)

\* The step leaves the job's state, progress and log as they were.
JobKept(j) ==
    /\ jobs'[j].state = jobs[j].state
    /\ jobs'[j].progress = jobs[j].progress
    /\ jobs'[j].log = jobs[j].log

\* A step in which worker w calls transition.
WorkerCall(w) ==
    \/ Start(w)
    \/ Callback(w)
    \/ FinishOk(w)
    \/ \E o \in {"transient", "permanent"} : FinishError(w, o)

EntryBy(w, what) == Entry(what, worker[w].msg.stage, worker[w].msg.attempt)

\* The effect of worker w's successful call is in the job stored afterwards:
\* its entry is the last of the log, after every entry that was there, and
\* the state and progress are the ones the call wrote.
EffectPresent(w, j) ==
    LET m == worker[w].msg
        old == jobs[j]
        new == jobs'[j]
    IN /\ Len(new.log) = Len(old.log) + 1
       /\ SubSeq(new.log, 1, Len(old.log)) = old.log
       /\ \/ /\ Start(w)
             /\ Last(new.log) = EntryBy(w, "start")
             /\ new.state = InProgress(m.stage)
             /\ new.progress = StageStart(m.stage)
          \/ /\ Callback(w)
             /\ Last(new.log) = EntryBy(w, "progress")
             /\ new.state = old.state
             /\ new.progress = IF old.progress + CallbackDelta > 100 THEN 100
                               ELSE old.progress + CallbackDelta
          \/ /\ FinishOk(w)
             /\ Last(new.log) = EntryBy(w, "done")
             /\ new.state = NextState(m.stage)
             /\ new.progress = StageDone(m.stage)
          \/ /\ \E o \in {"transient", "permanent"} :
                   FinishError(w, o) /\ Last(new.log) = EntryBy(w, o)
             /\ new.progress = old.progress

C13_StagesSequential ==
    \A j \in Jobs : \A i \in DOMAIN jobs[j].log :
        (jobs[j].log[i][1] = "start" /\ jobs[j].log[i][2] = "S")
        => /\ \E k \in 1..(i-1) :
                 jobs[j].log[k][1] = "done" /\ jobs[j].log[k][2] = "T"
           /\ jobs[j].state \notin {"QUEUED", "TRANSCRIBING"}

\* Summarization has started while a second worker still runs a reclaimed or
\* retried transcription.
C13_Witness ==
    \E j \in Jobs, w1, w2 \in Workers :
        /\ worker[w1].pc = "running" /\ worker[w1].msg.stage = "S"
        /\ worker[w2].pc = "running" /\ worker[w2].msg.stage = "T"
        /\ worker[w1].msg.job = j /\ worker[w2].msg.job = j
        /\ jobs[j].state = "SUMMARIZING"

\* Job j is in progress after a crash.
CrashedInProgress(j) ==
    /\ jobs[j].state \in {"TRANSCRIBING", "SUMMARIZING"}
    /\ \E i \in DOMAIN faults : faults[i] = "crash"

\* Job j is in progress and nobody works on it or is about to.
Stranded(j) ==
    jobs[j].state \in {"TRANSCRIBING", "SUMMARIZING"} /\ ~Held(j) /\ ~Queued(j)

\* The message the reclaimer enqueues for job j is waiting.
Requeued(j) ==
    \E i \in DOMAIN queue :
        queue[i] = Msg(j, StageOf(jobs[j].state), jobs[j].attempt + 1)

ErrorMessages == {"timeout", "unsupported codec", "job timeout"}

C23_FinalizableOnlyWhenReviewReady ==
    /\ FormShown => selectedTask.status = "review_ready"
    /\ finalizeMutation.status # "idle" => finalizeMutation.seen = "review_ready"

\* C29 (as claimed): after a successful finalize from the task list the
\* client is at a path that the detail route of the new meeting renders, not
\* the catch-all redirect.
C29_FinalizeNavigatesToDetail ==
    \A m \in MeetingIds :
        (finalizeMutation.status = "success" /\ location = FinalizedPath(m))
            => RouteOf(location) = DetailRoute

(***************************************************************************)
(* Claims about the upload page                                            *)
(***************************************************************************)
\* C26 (as claimed): each selected file is uploaded at most once over any
\* sequence of button presses, also when the upload of a later file of the
\* batch failed and the user presses the button again.
C26_EachFileUploadedOnce == \A f \in 1..MaxFiles : Times(f) <= 1

(***************************************************************************)
(* Claims about the auth context                                           *)
(***************************************************************************)
\* C27 (as claimed): after logout the user is null and no token is stored,
\* and this stays so until the next successful login or register, also when
\* a refetchUser or checkAuth request sent before the logout succeeds after
\* it.
C27_LogoutSticks == signedOut => (user = "null" /\ authToken = "null")

(***************************************************************************)
(* Claims about the meeting detail page                                    *)
(***************************************************************************)
\* C28: the detail page fetches the meeting again every 3000 ms exactly
\* while the status fetched last is 'summarizing'; for every other status,
\* and before any data, the interval is off, so only a fetch the page asks
\* for refreshes a meeting last seen as 'uploaded' or 'transcribing'.
C28_DetailPollsOnlyWhileSummarizing ==
    /\ [](/\ meeting.status = "summarizing" => detailRefetchInterval(meeting) = 3000
          /\ meeting.status # "summarizing" => detailRefetchInterval(meeting) = 0)
    /\ [][fetching' = "interval" => meeting.status = "summarizing"]_vars

\* A meeting was fetched twice by the interval and is now seen as
\* 'transcribing', with the interval off and no fetch in flight.
C28_Witness ==
    /\ intervalFetches = 2
    /\ meeting.status = "transcribing"
    /\ fetching = "none"
    /\ detailRefetchInterval(meeting) = 0

(***************************************************************************)
(* Claims about the workspace context                                      *)
(***************************************************************************)
\* C30 (as claimed): activeWorkspace is always null or one of the entries of
\* workspaces, after any sequence of user changes and switchWorkspace,
\* createWorkspace and joinWorkspace calls, failed and late ones included.
C30_ActiveWorkspaceListed ==
    activeWorkspace = "null" \/ Holds(workspaces, activeWorkspace)

(***************************************************************************)
(* Claims about the lanes of the queue                                     *)
(***************************************************************************)
\* C19 (as claimed): a job enqueued on the default lane is eventually
\* dequeued also while jobs keep arriving on the high-priority lane, and the
\* high-priority lane is the preferred one, so a job waiting in it is
\* eventually dequeued also while jobs keep arriving on the default lane.
C19_DefaultLaneNotStarved ==
    /\ (tracked["default"] > 0) ~> (tracked["default"] = 0)
    /\ (tracked["high_priority"] > 0) ~> (tracked["high_priority"] = 0)

====
